---- MODULE Spec2Model ----
(***************************************************************************)
(* Construction of schema.Table (src/schema/table.go): field discovery     *)
(* (init1), inlining and relation resolution (init2), and the locking of   *)
(* the field-name map.                                                     *)
(*                                                                         *)
(* A *Field is a reference [t, k] into the heap of the table that          *)
(* allocated it; Nil is the nil pointer.  A struct tag is the pair         *)
(* [Name, Options] that tagparser.Parse returns: Options is a function     *)
(* whose domain is the set of option keys that are present.  The value of  *)
(* the join option is kept split at "," and "=" (a sequence of segments,   *)
(* each a sequence of parts).                                              *)
(***************************************************************************)
EXTENDS Integers, Sequences, FiniteSets, TLC

VARIABLES tables, tbl, decl, walk, pc, i, err,
          frames, visited, expanded, clones,
          mu, rpc, wpc, todo, res,
          fv, sderr, impl, asked

vars == <<tables, tbl, decl, walk, pc, i, err, frames, visited, expanded, clones,
          mu, rpc, wpc, todo, res, fv, sderr, impl, asked>>

tableVars == <<tbl, decl, walk, pc, i, err>>
inlineVars == <<frames, visited, expanded, clones>>
lockVars == <<mu, rpc, wpc, todo, res>>
useVars == <<fv, sderr, impl, asked>>
others == <<tables, inlineVars, lockVars, useVars>>

----------------------------------------------------------------------------
(* Bounds *)

\* number of attributes declared directly on the record type under construction
MaxFields == 3

\* number of column lookups each concurrent goroutine makes
MaxLookups == 2

\* the values time.Now() takes
MaxNow == 2

----------------------------------------------------------------------------
(* Names and tags *)

Nil == [t |-> "", k |-> 0]

NoOptions == <<>>

Opt(k, v) == k :> v

HasOption(tag, k) == k \in DOMAIN tag.Options

\* internal.Underscore on the identifiers of the modelled types
UnderscoreTable ==
    ("ID" :> "id") @@ ("UUID" :> "uuid") @@ ("Name" :> "name") @@ ("Kind" :> "kind")
    @@ ("AuthorID" :> "author_id") @@ ("Author" :> "author") @@ ("Editor" :> "editor")
    @@ ("Chapters" :> "chapters") @@ ("Tags" :> "tags") @@ ("Tag" :> "tag")
    @@ ("Book" :> "book") @@ ("Chapter" :> "chapter") @@ ("BookTag" :> "book_tag")
    @@ ("BookID" :> "book_id") @@ ("BookUUID" :> "book_uuid") @@ ("BookType" :> "book_type")
    @@ ("TagID" :> "tag_id") @@ ("TagKind" :> "tag_kind") @@ ("Meta" :> "meta")
    @@ ("Parent" :> "parent") @@ ("Base" :> "base") @@ ("Audit" :> "audit")
    @@ ("PkBook" :> "pk_book") @@ ("Owner" :> "owner") @@ ("Node" :> "node")
    @@ ("Left" :> "left") @@ ("Right" :> "right") @@ ("Peer" :> "peer")
    @@ ("Val" :> "val")

Underscore(s) == IF s \in DOMAIN UnderscoreTable THEN UnderscoreTable[s] ELSE s

\* internal.ToExported: the modelled type names are exported already
ToExported(s) == s

\* inflection.Plural on the modelled (regular) model names
tableNameInflector(s) == s \o "s"

\* a declared attribute (reflect.StructField): Index is its position in the struct
Attr(go, tagName, options, kind, elem) ==
    [GoName |-> go, PkgPath |-> "", Anonymous |-> FALSE,
     Tag |-> [Name |-> tagName, Options |-> options],
     Kind |-> kind, Elem |-> elem, Ptr |-> FALSE]

\* the attribute a declared with the type *T instead of T
PtrTo(a) == [a EXCEPT !.Ptr = TRUE]

\* indirectType(f.Type): T for a declared *T and for a declared T
indirectType(f) == [Kind |-> f.Kind, Elem |-> f.Elem]

Embed(go, tagName, options, kind, elem) ==
    [Attr(go, tagName, options, kind, elem) EXCEPT !.Anonymous = TRUE]

Unexported(a) == [a EXCEPT !.PkgPath = "schema"]

----------------------------------------------------------------------------
(* Table and the list helpers *)

\* newTable for a record type whose pointer implements no hook interface; the
\* loop over hooks is setHooks below
newTable(typ) ==
    [Type |-> typ,
     TypeName |-> ToExported(typ),
     ModelName |-> Underscore(typ),
     Name |-> tableNameInflector(Underscore(typ)),
     Fields |-> <<>>, PKs |-> <<>>, DataFields |-> <<>>,
     FieldMap |-> <<>>,
     Relations |-> <<>>,
     allFields |-> <<>>, skippedFields |-> <<>>,
     SoftDeleteField |-> Nil, UpdateSoftDeleteField |-> "",
     flags |-> 0,
     heap |-> <<>>]

\* *field for a reference into table t's heap
Deref(t, field) == t.heap[field.k]

CheckPKs(t) == Len(t.PKs) > 0

RECURSIVE removeField(_, _)
removeField(fields, field) ==
    IF fields = <<>> THEN <<>>
    ELSE IF Head(fields) = field THEN Tail(fields)
    ELSE <<Head(fields)>> \o removeField(Tail(fields), field)

MapGet(m, name) == IF name \in DOMAIN m THEN m[name] ELSE Nil

MapSet(m, name, v) == (name :> v) @@ m

MapDelete(m, name) == [k \in DOMAIN m \ {name} |-> m[k]]

\* an addField that lists every field as a data field
addFieldAsData(t, field) ==
    LET f == Deref(t, field) IN
    [t EXCEPT !.Fields = Append(@, field),
              !.PKs = IF f.IsPK THEN Append(@, field) ELSE @,
              !.DataFields = Append(@, field),
              !.FieldMap = MapSet(@, f.Name, field)]

addField(t, field) ==
    LET f == Deref(t, field) IN
    [t EXCEPT !.Fields = Append(@, field),
              !.PKs = IF f.IsPK THEN Append(@, field) ELSE @,
              !.DataFields = IF f.IsPK THEN @ ELSE Append(@, field),
              !.FieldMap = MapSet(@, f.Name, field)]

\* a removal that forgets the name and keeps the lists
tableRemoveFieldName(t, field) ==
    [t EXCEPT !.FieldMap = MapDelete(@, Deref(t, field).Name)]

tableRemoveField(t, field) ==
    LET f == Deref(t, field) IN
    [t EXCEPT !.Fields = removeField(@, field),
              !.PKs = IF f.IsPK THEN removeField(@, field) ELSE @,
              !.DataFields = IF f.IsPK THEN @ ELSE removeField(@, field),
              !.FieldMap = MapDelete(@, f.Name)]

fieldWithLock(t, name) == MapGet(t.FieldMap, name)

HasField(t, name) == name \in DOMAIN t.FieldMap

Field(t, name) == MapGet(t.FieldMap, name)

fieldByGoName(t, name) ==
    LET hits == {j \in 1..Len(t.allFields) : Deref(t, t.allFields[j]).GoName = name}
    IN IF hits = {} THEN Nil
       ELSE t.allFields[CHOOSE j \in hits : \A h \in hits : j <= h]

indexEqual(a, b) == a = b

markAsPK(f) == [f EXCEPT !.IsPK = TRUE, !.NotNull = TRUE]

----------------------------------------------------------------------------
(* Phase 1: field discovery *)

\* newField: the table after the call and the field it returns (Nil for none)
\* softDeleteFieldUpdaterFallback: the setter that calls field.ScanWithCheck
softDeleteFieldUpdaterFallback(field) == "fallback"

\* softDeleteFieldUpdater: the setter is selected by field.Type; for a field.Type
\* of pointer kind field.Type.Elem names the type pointed to
softDeleteFieldUpdater(field) ==
    IF field.Type.Elem = "time.Time" /\ field.Type.Kind = "struct" THEN "time"
    ELSE IF field.Type.Elem = "sql.NullTime" /\ field.Type.Kind = "struct" THEN "nullTime"
    ELSE IF field.Type.Elem = "sql.NullInt64" /\ field.Type.Kind = "struct" THEN "nullInt"
    ELSE IF field.Type.Kind = "int64" THEN "int64"
    ELSE IF field.Type.Kind # "ptr" THEN softDeleteFieldUpdaterFallback(field)
    ELSE IF field.Type.Elem = "time.Time" THEN "ptrTime"
    ELSE IF field.Type.Elem \in {"int64", "MyInt64"} THEN "ptrInt64"
    ELSE softDeleteFieldUpdaterFallback(field)

newField(t, f, index0) ==
    IF f.PkgPath # "" THEN [t |-> t, field |-> Nil]
    ELSE
    LET tag == f.Tag
        skip == tag.Name = "-"
        sqlName == IF ~skip /\ tag.Name # "" THEN tag.Name ELSE Underscore(f.GoName)
        index == index0 \o f.Index
        old == fieldWithLock(t, sqlName)
    IN IF old # Nil /\ indexEqual(Deref(t, old).Index, index)
       THEN [t |-> t, field |-> old]
       ELSE
       LET t1 == IF old # Nil THEN tableRemoveField(t, old) ELSE t
           ref == [t |-> t.Type, k |-> Len(t1.heap) + 1]
           fld0 == [GoName |-> f.GoName, Name |-> sqlName, Index |-> index,
                    Tag |-> tag, Kind |-> f.Kind, Elem |-> f.Elem,
                    Type |-> indirectType(f), Ptr |-> f.Ptr,
                    IsPK |-> FALSE,
                    NotNull |-> HasOption(tag, "notnull"),
                    NullZero |-> HasOption(tag, "nullzero"),
                    AutoIncrement |-> HasOption(tag, "autoincrement")]
           fld == IF HasOption(tag, "pk") THEN markAsPK(fld0) ELSE fld0
           t2 == [t1 EXCEPT !.heap = Append(@, fld),
                            !.FieldMap = IF HasOption(tag, "alias")
                                         THEN MapSet(@, tag.Options["alias"], ref)
                                         ELSE @,
                            !.allFields = Append(@, ref)]
       IN IF skip
          THEN [t |-> [t2 EXCEPT !.skippedFields = Append(@, ref),
                                 !.FieldMap = MapSet(@, sqlName, ref)],
                field |-> Nil]
          ELSE IF HasOption(tag, "soft_delete")
          THEN [t |-> [t2 EXCEPT !.heap[ref.k].NullZero = TRUE,
                                 !.SoftDeleteField = ref,
                                 !.UpdateSoftDeleteField = softDeleteFieldUpdater(fld)],
                field |-> ref]
          ELSE [t |-> t2, field |-> ref]

----------------------------------------------------------------------------
(* The record types of the registry *)

\* the record type under construction
OwnerType == "Book"

Scalar(go) == Attr(go, "", NoOptions, "int", "")

\* declarations of the other record types, in declaration order
TypeDecl ==
    ("Author" :> << Attr("ID", "", Opt("pk", ""), "int", ""), Scalar("Name") >>)
    @@ ("Chapter" :> << Attr("ID", "", Opt("pk", ""), "int", ""),
                        Scalar("BookID"), Scalar("BookType") >>)
    @@ ("Tag" :> << Attr("ID", "", Opt("pk", ""), "int", ""),
                    Attr("Kind", "", Opt("pk", ""), "int", "") >>)
    @@ ("BookTag" :> << Scalar("BookID"), Scalar("BookUUID"), Scalar("TagID"), Scalar("TagKind"),
                        Attr("Book", "", NoOptions, "struct", "Book"),
                        Attr("Tag", "", NoOptions, "struct", "Tag") >>)
    @@ ("Base" :> << Scalar("ID"), Scalar("Name") >>)
    @@ ("Mid" :> << Embed("Base", "", NoOptions, "struct", "Base"), Scalar("Kind") >>)
    @@ ("Audit" :> << Attr("Author", "editor",
                           Opt("rel", "has-one") @@ Opt("join", << <<"id", "id">> >>),
                           "struct", "Author") >>)

EnvTypes == DOMAIN TypeDecl

\* typ.Field(j): the declared attribute with its position
StructField(a, j) == [Index |-> <<j>>] @@ a

\* addFields recurses into f: an embedded struct that is not excluded
isEmbedded(f) ==
    /\ f.Anonymous
    /\ ~(f.Tag.Name = "-" /\ f.Tag.Options = NoOptions)
    /\ f.GoName # "BaseModel"
    /\ f.Kind = "struct"

\* the body of the loop of addFields for an attribute it does not recurse into
addFieldsLeaf(t, f, baseIndex) ==
    IF f.Anonymous THEN t
    ELSE LET r == newField(t, f, baseIndex)
         IN IF r.field # Nil THEN addField(r.t, r.field) ELSE r.t

\* the inherit option of an embedded struct, applied when its walk returns
inheritFrom(t, f) ==
    LET embeddedTable == newTable(f.Elem)
    IN IF HasOption(f.Tag, "inherit")
       THEN [t EXCEPT !.TypeName = embeddedTable.TypeName,
                      !.ModelName = embeddedTable.ModelName,
                      !.Name = embeddedTable.Name]
       ELSE t

RECURSIVE addFieldsFrom(_, _, _, _)
\* the body of the loop of addFields for one attribute f
addFieldsBody(t, f, baseIndex) ==
    IF isEmbedded(f)
    THEN inheritFrom(addFieldsFrom(t, TypeDecl[f.Elem], baseIndex \o f.Index, 1), f)
    ELSE addFieldsLeaf(t, f, baseIndex)

addFieldsFrom(t, fields, baseIndex, j) ==
    IF j > Len(fields) THEN t
    ELSE CHOOSE r \in {addFieldsFrom(next, fields, baseIndex, j + 1) :
                        next \in {addFieldsBody(t, StructField(fields[j], j - 1), baseIndex)}} :
            TRUE

addFields(t, typ, baseIndex) == addFieldsFrom(t, TypeDecl[typ], baseIndex, 1)

\* the primary-key fallback that ends initFields
\* a fallback that takes the last of the conventional names
pkFallbackLast(t) ==
    IF Len(t.PKs) > 0 THEN t
    ELSE
    LET names == <<"id", "uuid", "pk_" \o t.ModelName>>
        hits == {j \in 1..3 : names[j] \in DOMAIN t.FieldMap}
        t1 == IF hits = {} THEN t
              ELSE LET last == CHOOSE j \in hits : \A h \in hits : j >= h
                       field == t.FieldMap[names[last]]
                   IN [t EXCEPT !.heap[field.k] = markAsPK(@),
                                !.PKs = <<field>>,
                                !.DataFields = removeField(@, field)]
    IN IF Len(t1.PKs) = 1
       THEN [t1 EXCEPT !.heap[t1.PKs[1].k].AutoIncrement = TRUE]
       ELSE t1

pkFallback(t) ==
    IF Len(t.PKs) > 0 THEN t
    ELSE
    LET names == <<"id", "uuid", "pk_" \o t.ModelName>>
        hits == {j \in 1..3 : names[j] \in DOMAIN t.FieldMap}
        t1 == IF hits = {} THEN t
              ELSE LET first == CHOOSE j \in hits : \A h \in hits : j <= h
                       field == t.FieldMap[names[first]]
                   IN [t EXCEPT !.heap[field.k] = markAsPK(@),
                                !.PKs = <<field>>,
                                !.DataFields = removeField(@, field)]
    IN IF Len(t1.PKs) = 1
       THEN [t1 EXCEPT !.heap[t1.PKs[1].k].AutoIncrement = TRUE]
       ELSE t1

initFields(t) == pkFallback(addFields(t, t.Type, <<>>))

\* the table of another record type after init1
EnvTable(typ) == initFields(newTable(typ))

\* Tables().Ref: the table of a record type, phase 1 done
Ref(typ) == IF typ = OwnerType THEN tbl ELSE tables[typ]

\* Tables().ByName: the type registered under that table name, "" for none
ByName(name) ==
    LET hits == {typ \in EnvTypes : tables[typ].Name = name}
    IN IF hits = {} THEN "" ELSE CHOOSE typ \in hits : TRUE

----------------------------------------------------------------------------
(* Phase 1 of the record type under construction, one attribute at a time *)

PK == Opt("pk", "")

\* attributes the field-discovery walk is run on
FieldAttrs ==
    { Scalar("ID"),
      Attr("ID", "", PK, "int", ""),
      Attr("ID", "-", NoOptions, "int", ""),
      Attr("ID", "-", PK, "int", ""),
      Scalar("UUID"),
      Attr("UUID", "", PK, "int", ""),
      Scalar("PkBook"),
      Scalar("Name"),
      Attr("Name", "id", NoOptions, "int", ""),
      Attr("Name", "", Opt("alias", "uuid"), "int", ""),
      Unexported(Scalar("Val")),
      Embed("Base", "", NoOptions, "struct", "Base"),
      Embed("Base", "-", NoOptions, "struct", "Base"),
      Embed("Base", "", Opt("inherit", ""), "struct", "Base"),
      Embed("Mid", "", NoOptions, "struct", "Mid") }

DeclaredNames == {decl[j].GoName : j \in 1..Len(decl)}

\* a call of addFields on the embedded struct f, about to visit its field j
Frame(f, baseIndex) ==
    [f |-> f, fields |-> TypeDecl[f.Elem], base |-> baseIndex \o f.Index, j |-> 1]

Top == walk[Len(walk)]

Pop == SubSeq(walk, 1, Len(walk) - 1)

\* one iteration of the top-level loop of addFields, on the attribute a
Discover(a) ==
    /\ pc = "init1"
    /\ walk = <<>>
    /\ Len(decl) < MaxFields
    /\ a.GoName \notin DeclaredNames
    /\ LET f == StructField(a, Len(decl))
       IN IF isEmbedded(f)
          THEN walk' = <<Frame(f, <<>>)>> /\ tbl' = tbl
          ELSE walk' = walk /\ tbl' = addFieldsLeaf(tbl, f, <<>>)
    /\ decl' = Append(decl, a)
    /\ UNCHANGED <<pc, i, err>>

AddFieldsStepF ==
    /\ \E a \in FieldAttrs : Discover(a)
    /\ UNCHANGED others

\* one iteration of the loop of addFields inside an embedded struct, or its return
AddFieldsEmbedded ==
    /\ pc = "init1"
    /\ walk # <<>>
    /\ IF Top.j > Len(Top.fields)
       THEN /\ walk' = Pop
            /\ tbl' = inheritFrom(tbl, Top.f)
       ELSE LET f == StructField(Top.fields[Top.j], Top.j - 1)
                rest == [walk EXCEPT ![Len(walk)].j = @ + 1]
            IN IF isEmbedded(f)
               THEN walk' = Append(rest, Frame(f, Top.base)) /\ tbl' = tbl
               ELSE walk' = rest /\ tbl' = addFieldsLeaf(tbl, f, Top.base)
    /\ UNCHANGED <<decl, pc, i, err, others>>

\* the end of initFields: every attribute was walked
InitFieldsFinish ==
    /\ pc = "init1"
    /\ walk = <<>>
    /\ tbl' = pkFallback(tbl)
    /\ pc' = "init2"
    /\ UNCHANGED <<decl, walk, i, err, others>>

InitTable ==
    /\ tables = [typ \in EnvTypes |-> EnvTable(typ)]
    /\ tbl = newTable(OwnerType)
    /\ decl = <<>>
    /\ walk = <<>>
    /\ pc = "init1"
    /\ i = 1
    /\ err = ""

InitInlineIdle ==
    /\ frames = <<>> /\ visited = {} /\ expanded = <<>> /\ clones = 0

InitLockIdle ==
    /\ mu = [writer |-> FALSE, readers |-> {}]
    /\ rpc = <<>> /\ wpc = "idle" /\ todo = <<>> /\ res = <<>>

\* no soft delete was applied and no hook accessor was called
InitUseIdle ==
    /\ fv = [n |-> 0, valid |-> FALSE, null |-> FALSE]
    /\ sderr = ""
    /\ impl = {}
    /\ asked = [hook |-> "", result |-> FALSE]

InitFieldsOnly == InitTable /\ InitInlineIdle /\ InitLockIdle /\ InitUseIdle

NextFields == AddFieldsStepF \/ AddFieldsEmbedded \/ InitFieldsFinish

SpecFields == InitFieldsOnly /\ [][NextFields]_vars

----------------------------------------------------------------------------
(* Soft delete: phase 1 on attributes tagged soft_delete, then the selected     *)
(* setter applied to the attribute of a zero-valued record.  A value is         *)
(* [n, valid, null]: the time or integer held, the Valid flag of the sql.Null   *)
(* types, and whether a pointer is nil.                                         *)

SoftDelete == Opt("soft_delete", "")

\* attributes of the declared types the setters are selected for
SoftAttrs ==
    { Scalar("ID"),
      Scalar("Name"),
      Attr("DeletedAt", "", SoftDelete, "struct", "time.Time"),
      PtrTo(Attr("DeletedAt", "", SoftDelete, "struct", "time.Time")),
      Attr("DeletedAt", "", SoftDelete, "struct", "sql.NullTime"),
      Attr("DeletedAt", "", SoftDelete, "struct", "sql.NullInt64"),
      Attr("DeletedAt", "", SoftDelete, "int64", "int64"),
      PtrTo(Attr("DeletedAt", "", SoftDelete, "int64", "int64")),
      Attr("DeletedAt", "", SoftDelete, "int64", "MyInt64"),
      Attr("DeletedAt", "", SoftDelete, "string", "string"),
      Attr("DeletedAt", "-", SoftDelete, "struct", "time.Time"),
      Attr("RemovedAt", "", SoftDelete, "int64", "int64"),
      Attr("RemovedAt", "deleted_at", SoftDelete, "struct", "time.Time") }

\* the attribute of a zero-valued record
Zero(field) == [n |-> 0, valid |-> FALSE, null |-> field.Ptr]

Set(v) == [err |-> "", v |-> v]

Failed(msg, v) == [err |-> msg, v |-> v]

\* field.ScanWithCheck(fv, time.Now())
ScanWithCheck(field, v, now) == Set([n |-> now, valid |-> v.valid, null |-> FALSE])

\* the setter softDeleteFieldUpdater returned, called on the attribute fv of a
\* record: fv has the declared type of the attribute
applyUpdater(updater, field, v, now) ==
    LET declared == IF field.Ptr THEN [Kind |-> "ptr", Elem |-> field.Elem]
                    ELSE [Kind |-> field.Kind, Elem |-> field.Elem]
        assert(elem) == declared.Kind # "ptr" /\ declared.Elem = elem
    IN CASE updater = "time" ->
              IF assert("time.Time") THEN Set([n |-> now, valid |-> FALSE, null |-> FALSE])
              ELSE Failed("interface conversion", v)
         [] updater = "nullTime" ->
              IF assert("sql.NullTime") THEN Set([n |-> now, valid |-> FALSE, null |-> FALSE])
              ELSE Failed("interface conversion", v)
         [] updater = "nullInt" ->
              IF assert("sql.NullInt64") THEN Set([n |-> now, valid |-> FALSE, null |-> FALSE])
              ELSE Failed("interface conversion", v)
         [] updater = "int64" ->
              IF assert("int64") THEN Set([n |-> now, valid |-> FALSE, null |-> FALSE])
              ELSE Failed("interface conversion", v)
         [] updater = "ptrTime" ->
              IF declared = [Kind |-> "ptr", Elem |-> "time.Time"]
              THEN Set([n |-> now, valid |-> FALSE, null |-> FALSE])
              ELSE Failed("reflect.Set: not assignable", v)
         [] updater = "ptrInt64" ->
              IF declared = [Kind |-> "ptr", Elem |-> "int64"]
              THEN Set([n |-> now, valid |-> FALSE, null |-> FALSE])
              ELSE Failed("reflect.Set: not assignable", v)
         [] OTHER -> ScanWithCheck(field, v, now)

AddFieldsStepS ==
    /\ \E a \in SoftAttrs : Discover(a)
    /\ UNCHANGED others

\* t.UpdateSoftDeleteField(fv) on the soft-delete attribute of a zero-valued record
UpdateSoftDeleteField ==
    /\ pc = "init2"
    /\ tbl.SoftDeleteField # Nil
    /\ \E now \in 1..MaxNow :
          LET field == Deref(tbl, tbl.SoftDeleteField)
              r == applyUpdater(tbl.UpdateSoftDeleteField, field, Zero(field), now)
          IN fv' = r.v /\ sderr' = r.err
    /\ pc' = "deleted"
    /\ UNCHANGED <<tables, tbl, decl, walk, i, err, inlineVars, lockVars, impl, asked>>

NextSoftDelete == AddFieldsStepS \/ InitFieldsFinish \/ UpdateSoftDeleteField

SpecSoftDelete == InitFieldsOnly /\ [][NextSoftDelete]_vars


----------------------------------------------------------------------------
(* Hooks *)

beforeScanHookFlag == 1
afterScanHookFlag == 2
afterSelectHookFlag == 4
beforeInsertHookFlag == 8
afterInsertHookFlag == 16
beforeUpdateHookFlag == 32
afterUpdateHookFlag == 64
beforeDeleteHookFlag == 128
afterDeleteHookFlag == 256

\* f.Has(flag) and f.Set(flag) for a flag of one bit
FlagHas(f, flag) == (f \div flag) % 2 = 1

FlagSet(f, flag) == IF FlagHas(f, flag) THEN f ELSE f + flag

\* the table of hooks in newTable
hooks ==
    << [typ |-> "BeforeScanHook", flag |-> beforeScanHookFlag],
       [typ |-> "AfterScanHook", flag |-> afterScanHookFlag],
       [typ |-> "AfterSelectHook", flag |-> afterSelectHookFlag],
       [typ |-> "BeforeInsertHook", flag |-> beforeInsertHookFlag],
       [typ |-> "AfterInsertHook", flag |-> afterInsertHookFlag],
       [typ |-> "BeforeUpdateHook", flag |-> beforeUpdateHookFlag],
       [typ |-> "AfterUpdateHook", flag |-> afterUpdateHookFlag],
       [typ |-> "BeforeDeleteHook", flag |-> beforeDeleteHookFlag],
       [typ |-> "AfterDeleteHook", flag |-> afterDeleteHookFlag] >>

HookTypes == {hooks[j].typ : j \in 1..Len(hooks)}

\* the loop of newTable over hooks from position j on; implemented is the set of
\* hook interfaces the pointer to the record type implements
RECURSIVE setHooks(_, _, _)
setHooks(t, implemented, j) ==
    IF j > Len(hooks) THEN t
    ELSE setHooks(IF hooks[j].typ \in implemented
                  THEN [t EXCEPT !.flags = FlagSet(@, hooks[j].flag)]
                  ELSE t,
                  implemented, j + 1)

HasBeforeScanHook(t) == FlagHas(t.flags, beforeScanHookFlag)
HasAfterScanHook(t) == FlagHas(t.flags, afterScanHookFlag)
HasAfterSelectHook(t) == FlagHas(t.flags, afterSelectHookFlag)
HasBeforeInsertHook(t) == FlagHas(t.flags, afterInsertHookFlag)
HasAfterInsertHook(t) == FlagHas(t.flags, afterInsertHookFlag)
HasBeforeUpdateHook(t) == FlagHas(t.flags, beforeUpdateHookFlag)
HasAfterUpdateHook(t) == FlagHas(t.flags, afterUpdateHookFlag)
HasBeforeDeleteHook(t) == FlagHas(t.flags, beforeDeleteHookFlag)
HasAfterDeleteHook(t) == FlagHas(t.flags, afterDeleteHookFlag)

\* a caller asks the accessor of hook and gets result
Ask(hook, result) ==
    /\ asked' = [hook |-> hook, result |-> result]
    /\ UNCHANGED <<tables, tableVars, inlineVars, lockVars, fv, sderr, impl>>

CallHasBeforeScanHook == Ask("BeforeScanHook", HasBeforeScanHook(tbl))
CallHasAfterScanHook == Ask("AfterScanHook", HasAfterScanHook(tbl))
CallHasAfterSelectHook == Ask("AfterSelectHook", HasAfterSelectHook(tbl))
CallHasBeforeInsertHook == Ask("BeforeInsertHook", HasBeforeInsertHook(tbl))
CallHasAfterInsertHook == Ask("AfterInsertHook", HasAfterInsertHook(tbl))
CallHasBeforeUpdateHook == Ask("BeforeUpdateHook", HasBeforeUpdateHook(tbl))
CallHasAfterUpdateHook == Ask("AfterUpdateHook", HasAfterUpdateHook(tbl))
CallHasBeforeDeleteHook == Ask("BeforeDeleteHook", HasBeforeDeleteHook(tbl))
CallHasAfterDeleteHook == Ask("AfterDeleteHook", HasAfterDeleteHook(tbl))

\* the table of a record type that implements any set of the hook interfaces
InitHooks ==
    /\ impl \in SUBSET HookTypes
    /\ tables = [typ \in EnvTypes |-> EnvTable(typ)]
    /\ tbl = setHooks(newTable(OwnerType), impl, 1)
    /\ decl = <<>> /\ walk = <<>> /\ pc = "init1" /\ i = 1 /\ err = ""
    /\ InitInlineIdle
    /\ InitLockIdle
    /\ fv = [n |-> 0, valid |-> FALSE, null |-> FALSE]
    /\ sderr = ""
    /\ asked = [hook |-> "", result |-> FALSE]

NextHooks ==
    \/ CallHasBeforeScanHook \/ CallHasAfterScanHook \/ CallHasAfterSelectHook
    \/ CallHasBeforeInsertHook \/ CallHasAfterInsertHook
    \/ CallHasBeforeUpdateHook \/ CallHasAfterUpdateHook
    \/ CallHasBeforeDeleteHook \/ CallHasAfterDeleteHook

SpecHooks == InitHooks /\ [][NextHooks]_vars

----------------------------------------------------------------------------
(* Inlining *)

\* the clone of field f of the inlined struct, renamed and re-rooted under strct
inlineClone(strct, f) ==
    [f EXCEPT !.GoName = strct.GoName \o "_" \o @,
              !.Name = strct.Name \o "__" \o @,
              !.Index = strct.Index \o @]

\* the locked section of inlineFields: the first registration of a name wins
registerClone(t, f) ==
    IF f.Name \in DOMAIN t.FieldMap THEN t
    ELSE [t EXCEPT !.heap = Append(@, f),
                   !.FieldMap = MapSet(@, f.Name, [t |-> t.Type, k |-> Len(t.heap) + 1])]

\* a path map that never has the type
onPathNever(path, typ) == FALSE

\* _, ok := path[typ]
onPath(path, typ) == typ \in path

RECURSIVE inlineFields(_, _, _)
RECURSIVE inlineFrom(_, _, _, _, _)
\* inlineFields with the path map threaded through: the table and the map after
inlineFields(t, strct, path) ==
    IF onPath(path, strct.Elem) THEN [t |-> t, path |-> path]
    ELSE inlineFrom(t, strct, path \cup {strct.Elem}, Ref(strct.Elem), 1)

inlineFrom(t, strct, path, joinTable, j) ==
    IF j > Len(joinTable.allFields) THEN [t |-> t, path |-> path]
    ELSE CHOOSE out \in
            {inlineFrom(r.t, strct, r.path, joinTable, j + 1) :
                r \in {LET f == inlineClone(strct, Deref(joinTable, joinTable.allFields[j]))
                           t1 == registerClone(t, f)
                       IN IF f.Kind = "struct" /\ ~onPath(path, f.Elem)
                          THEN inlineFields(t1, f, path)
                          ELSE [t |-> t1, path |-> path]}} : TRUE

\* inlineFields(f, nil): the path map starts as the table's own type
inlineTop(t, strct) == inlineFields(t, strct, {t.Type}).t

RECURSIVE initInlinesFrom(_, _)
initInlinesFrom(t, j) ==
    IF j > Len(t.skippedFields) THEN t
    ELSE LET f == Deref(t, t.skippedFields[j])
         IN CHOOSE out \in
                {initInlinesFrom(next, j + 1) :
                    next \in {IF f.Kind = "struct" THEN inlineTop(t, f) ELSE t}} : TRUE

initInlines(t) == initInlinesFrom(t, 1)

----------------------------------------------------------------------------
(* Relation resolution *)

HasOneRelation == "has-one"
BelongsToRelation == "belongs-to"
HasManyRelation == "has-many"
ManyToManyRelation == "m2m"

Panic(msg) == [ok |-> FALSE, err |-> msg]

Resolved(rel) == [ok |-> TRUE, rel |-> rel]

Relation(type, field, joinTable) ==
    [Type |-> type, Field |-> field, JoinTable |-> joinTable.Type,
     BaseFields |-> <<>>, JoinFields |-> <<>>,
     M2MTable |-> "", M2MBaseFields |-> <<>>, M2MJoinFields |-> <<>>,
     PolymorphicField |-> Nil, PolymorphicValue |-> ""]

\* parseRelationJoin on the split option value: every segment must be base=join
parseRelationJoin(join) ==
    IF \E s \in 1..Len(join) : Len(join[s]) # 2
    THEN [ok |-> FALSE]
    ELSE [ok |-> TRUE,
          baseColumns |-> [s \in 1..Len(join) |-> join[s][1]],
          joinColumns |-> [s \in 1..Len(join) |-> join[s][2]]]

\* the loop over explicit join pairs: every base column on t, every join column
\* on joinTable, in the order of the pairs
explicitJoin(t, joinTable, rel, baseColumns, joinColumns, kind) ==
    IF \E s \in 1..Len(baseColumns) :
          \/ fieldWithLock(t, baseColumns[s]) = Nil
          \/ fieldWithLock(joinTable, joinColumns[s]) = Nil
    THEN Panic(kind \o ": must have column")
    ELSE Resolved([rel EXCEPT
            !.BaseFields = [s \in 1..Len(baseColumns) |-> fieldWithLock(t, baseColumns[s])],
            !.JoinFields = [s \in 1..Len(joinColumns) |-> fieldWithLock(joinTable, joinColumns[s])]])

\* a lookup that takes the bare <pk> before <prefix><pk>
conventionFieldBare(t, fkPrefix, pkName) ==
    IF fieldWithLock(t, pkName) # Nil
    THEN fieldWithLock(t, pkName)
    ELSE fieldWithLock(t, fkPrefix \o pkName)

\* the convention lookup of one key on table t: <prefix><pk>, else <pk>, else nil
conventionField(t, fkPrefix, pkName) ==
    IF fieldWithLock(t, fkPrefix \o pkName) # Nil
    THEN fieldWithLock(t, fkPrefix \o pkName)
    ELSE fieldWithLock(t, pkName)

\* the convention loop: one foreign key on table t per primary key of keys
conventionFields(t, fkPrefix, keys) ==
    [j \in 1..Len(keys.PKs) |->
        conventionField(t, fkPrefix, Deref(keys, keys.PKs[j]).Name)]

hasOneRelation(t, field) ==
    LET f == Deref(t, field)
        joinTable == Ref(f.Elem)
        rel == Relation(HasOneRelation, field, joinTable)
    IN IF ~CheckPKs(joinTable) THEN Panic("does not have primary keys")
       ELSE IF HasOption(f.Tag, "join")
       THEN LET p == parseRelationJoin(f.Tag.Options["join"])
            IN IF ~p.ok THEN Panic("can't parse relation join")
               ELSE explicitJoin(t, joinTable, rel, p.baseColumns, p.joinColumns, "has-one")
       ELSE LET fks == conventionFields(t, Underscore(f.GoName) \o "_", joinTable)
            IN IF \E j \in 1..Len(fks) : fks[j] = Nil
               THEN Panic("has-one: must have column")
               ELSE Resolved([rel EXCEPT !.JoinFields = joinTable.PKs,
                                         !.BaseFields = fks])

belongsToRelation(t, field) ==
    LET f == Deref(t, field)
        joinTable == Ref(f.Elem)
        rel == Relation(BelongsToRelation, field, joinTable)
    IN IF ~CheckPKs(t) THEN Panic("does not have primary keys")
       ELSE IF HasOption(f.Tag, "join")
       THEN LET p == parseRelationJoin(f.Tag.Options["join"])
            IN IF ~p.ok THEN Panic("can't parse relation join")
               ELSE explicitJoin(t, joinTable, rel, p.baseColumns, p.joinColumns, "belongs-to")
       ELSE LET fks == conventionFields(joinTable, Underscore(t.ModelName) \o "_", t)
            IN IF \E j \in 1..Len(fks) : fks[j] = Nil
               THEN Panic("belongs-to: must have column")
               ELSE Resolved([rel EXCEPT !.BaseFields = t.PKs,
                                         !.JoinFields = fks])

\* the polymorphic tail of hasManyRelation
polymorphic(t, f, joinTable, r, polymorphicColumn) ==
    IF ~r.ok \/ ~HasOption(f.Tag, "polymorphic") THEN r
    ELSE IF fieldWithLock(joinTable, polymorphicColumn) = Nil
    THEN Panic("has-many: must have polymorphic column")
    ELSE Resolved([r.rel EXCEPT
            !.PolymorphicField = fieldWithLock(joinTable, polymorphicColumn),
            !.PolymorphicValue = IF f.Tag.Options["polymorphic"] = ""
                                 THEN t.ModelName
                                 ELSE f.Tag.Options["polymorphic"]])

hasManyRelation(t, field) ==
    LET f == Deref(t, field)
        isPolymorphic == HasOption(f.Tag, "polymorphic")
    IN IF ~CheckPKs(t) THEN Panic("does not have primary keys")
       ELSE IF f.Kind # "slice" THEN Panic("has-many relation requires slice")
       ELSE
       LET joinTable == Ref(f.Elem)
           rel == Relation(HasManyRelation, field, joinTable)
           fkPrefix == Underscore(t.ModelName) \o "_"
       IN IF HasOption(f.Tag, "join")
          THEN LET p == parseRelationJoin(f.Tag.Options["join"])
               IN IF ~p.ok THEN Panic("can't parse relation join")
                  ELSE
                  LET isType(s) == isPolymorphic /\ p.baseColumns[s] = "type"
                      all == [s \in 1..Len(p.baseColumns) |-> s]
                      Keep(s) == ~isType(s)
                      kept == SelectSeq(all, Keep)
                      types == SelectSeq(all, isType)
                      polymorphicColumn ==
                          IF types = <<>> THEN "" ELSE p.joinColumns[types[Len(types)]]
                  IN polymorphic(t, f, joinTable,
                        explicitJoin(t, joinTable, rel,
                            [s \in 1..Len(kept) |-> p.baseColumns[kept[s]]],
                            [s \in 1..Len(kept) |-> p.joinColumns[kept[s]]], "has-many"),
                        polymorphicColumn)
          ELSE LET fks == conventionFields(joinTable, fkPrefix, t)
               IN IF \E j \in 1..Len(fks) : fks[j] = Nil
                  THEN Panic("has-many: must have column")
                  ELSE polymorphic(t, f, joinTable,
                          Resolved([rel EXCEPT !.BaseFields = t.PKs,
                                               !.JoinFields = fks]),
                          IF isPolymorphic THEN fkPrefix \o "type" ELSE "")

\* the two sides of the junction taken for each other
m2mFieldsCrossed(rel, leftRel, rightRel) ==
    [rel EXCEPT !.BaseFields = leftRel.JoinFields,
                !.M2MBaseFields = rightRel.BaseFields,
                !.JoinFields = rightRel.JoinFields,
                !.M2MJoinFields = leftRel.BaseFields]

\* the four field lists of a many-to-many relation, from the two relations of the
\* junction table
m2mFields(rel, leftRel, rightRel) ==
    [rel EXCEPT !.BaseFields = leftRel.JoinFields,
                !.M2MBaseFields = leftRel.BaseFields,
                !.JoinFields = rightRel.JoinFields,
                !.M2MJoinFields = rightRel.BaseFields]

m2mRelation(t, field) ==
    LET f == Deref(t, field)
    IN IF f.Kind # "slice" THEN Panic("m2m relation requires slice")
       ELSE
       LET joinTable == Ref(f.Elem)
       IN IF ~CheckPKs(t) \/ ~CheckPKs(joinTable) THEN Panic("does not have primary keys")
          ELSE IF ~HasOption(f.Tag, "m2m") THEN Panic("must have m2m tag option")
          ELSE IF ByName(f.Tag.Options["m2m"]) = "" THEN Panic("can't find m2m table")
          ELSE
          LET m2mTable == Ref(ByName(f.Tag.Options["m2m"]))
              rel == [Relation(ManyToManyRelation, field, joinTable)
                        EXCEPT !.M2MTable = m2mTable.Type]
              hasJoin == HasOption(f.Tag, "join")
              p == IF hasJoin THEN parseRelationJoin(f.Tag.Options["join"])
                   ELSE [ok |-> TRUE, baseColumns |-> <<t.TypeName>>,
                         joinColumns |-> <<joinTable.TypeName>>]
          IN IF ~p.ok THEN Panic("can't parse relation join")
             ELSE
             LET leftField == fieldByGoName(m2mTable, p.baseColumns[1])
                 rightField == fieldByGoName(m2mTable, p.joinColumns[1])
             IN IF leftField = Nil \/ rightField = Nil
                THEN Panic("many-to-many: must have field")
                ELSE
                LET leftRel == hasOneRelation(m2mTable, leftField)
                    rightRel == hasOneRelation(m2mTable, rightField)
                IN IF ~leftRel.ok THEN leftRel
                   ELSE IF ~rightRel.ok THEN rightRel
                   ELSE Resolved(m2mFields(rel, leftRel.rel, rightRel.rel))

\* a registration that stores the relation before it looks for the name
addRelationOverwrite(t, r) ==
    IF ~r.ok THEN [ok |-> FALSE, err |-> r.err, t |-> t]
    ELSE LET name == Deref(t, r.rel.Field).GoName
         IN [ok |-> name \notin DOMAIN t.Relations,
             err |-> IF name \in DOMAIN t.Relations THEN "already has relation" ELSE "",
             t |-> [t EXCEPT !.Relations = MapSet(@, name, r.rel)]]

\* addRelation: a relation name is registered once
addRelation(t, r) ==
    IF ~r.ok THEN [ok |-> FALSE, err |-> r.err, t |-> t]
    ELSE LET name == Deref(t, r.rel.Field).GoName
         IN IF name \in DOMAIN t.Relations
            THEN [ok |-> FALSE, err |-> "already has relation", t |-> t]
            ELSE [ok |-> TRUE, err |-> "",
                  t |-> [t EXCEPT !.Relations = MapSet(@, name, r.rel)]]

initRelation(t, field, rel) ==
    CASE rel = "has-one" -> addRelation(t, hasOneRelation(t, field))
      [] rel = "belongs-to" -> addRelation(t, belongsToRelation(t, field))
      [] rel = "has-many" -> addRelation(t, hasManyRelation(t, field))
      [] OTHER -> [ok |-> FALSE, err |-> "unknown relation", t |-> t]

\* tryRelation: whether it panicked, whether field is a relation, the table after
tryRelation(t, field) ==
    LET f == Deref(t, field)
    IN IF HasOption(f.Tag, "rel")
       THEN initRelation(t, field, f.Tag.Options["rel"]) @@ [isRel |-> TRUE]
       ELSE IF HasOption(f.Tag, "m2m")
       THEN addRelation(t, m2mRelation(t, field)) @@ [isRel |-> TRUE]
       ELSE [ok |-> TRUE, err |-> "", t |-> t, isRel |-> FALSE]

\* one iteration of the loop of initRelations on t.Fields[j] when it does not panic
initRelationsBody(t, j) ==
    LET field == t.Fields[j]
        r == tryRelation(t, field)
        t1 == IF r.isRel
              THEN [r.t EXCEPT !.Fields = removeField(@, field),
                               !.DataFields = removeField(@, field)]
              ELSE r.t
    IN IF Deref(t, field).Kind = "struct" THEN inlineTop(t1, Deref(t, field)) ELSE t1

----------------------------------------------------------------------------
(* Phase 2 of the record type under construction *)

\* attributes the relation resolvers are run on
RelAttrs ==
    { Attr("ID", "", PK, "int", ""),
      Scalar("ID"),
      Attr("UUID", "", PK, "int", ""),
      Scalar("AuthorID"),
      Scalar("Kind"),
      Attr("Author", "", Opt("rel", "belongs-to"), "struct", "Author"),
      Attr("Author", "", Opt("rel", "has-one"), "struct", "Author"),
      Attr("Author", "", Opt("rel", "has-one") @@ Opt("join", << <<"author_id", "id">> >>),
           "struct", "Author"),
      Attr("Author", "", Opt("rel", "belongs-to") @@ Opt("join", << <<"id", "nope">> >>),
           "struct", "Author"),
      Attr("Author", "", Opt("rel", "has-one") @@ Opt("join", << <<"author_id">> >>),
           "struct", "Author"),
      Attr("Author", "", Opt("rel", "has-some"), "struct", "Author"),
      Attr("Author", "", Opt("rel", "has-many"), "struct", "Author"),
      Attr("Author", "", NoOptions, "struct", "Author"),
      Attr("Author", "-", NoOptions, "struct", "Author"),
      Attr("Parent", "-", NoOptions, "struct", "Book"),
      Attr("Tag", "", Opt("rel", "has-one"), "struct", "Tag"),
      Attr("Chapters", "", Opt("rel", "has-many"), "slice", "Chapter"),
      Attr("Chapters", "", Opt("rel", "has-many") @@ Opt("polymorphic", ""),
           "slice", "Chapter"),
      Attr("Chapters", "", Opt("rel", "has-many") @@ Opt("polymorphic", "")
                           @@ Opt("join", << <<"type", "book_type">> >>),
           "slice", "Chapter"),
      Attr("Chapters", "", Opt("rel", "has-many") @@ Opt("polymorphic", "volume")
                           @@ Opt("join", << <<"id", "book_id">>, <<"type", "book_type">> >>),
           "slice", "Chapter"),
      Attr("Chapters", "", Opt("rel", "has-many") @@ Opt("join", << <<"id", "nope">> >>),
           "slice", "Chapter"),
      Attr("Chapters", "", Opt("rel", "has-many") @@ Opt("polymorphic", ""),
           "slice", "Author"),
      Attr("Tags", "", Opt("m2m", "book_tags"), "slice", "Tag"),
      Attr("Tags", "", Opt("m2m", "nopes"), "slice", "Tag"),
      Attr("Tags", "", Opt("m2m", "book_tags"), "slice", "Author"),
      Attr("Tags", "", Opt("m2m", "book_tags"), "struct", "Tag"),
      Embed("Audit", "", NoOptions, "struct", "Audit") }

AddFieldsStep ==
    /\ \E a \in RelAttrs : Discover(a)
    /\ UNCHANGED others

\* init2 starts with initInlines
InitInlines ==
    /\ pc = "init2"
    /\ tbl' = initInlines(tbl)
    /\ pc' = "relations"
    /\ i' = 1
    /\ UNCHANGED <<decl, walk, err, others>>

\* one iteration of the loop of initRelations that returns
InitRelationsStep ==
    /\ pc = "relations"
    /\ i <= Len(tbl.Fields)
    /\ tryRelation(tbl, tbl.Fields[i]).ok
    /\ tbl' = initRelationsBody(tbl, i)
    /\ i' = IF tryRelation(tbl, tbl.Fields[i]).isRel THEN i ELSE i + 1
    /\ UNCHANGED <<decl, walk, pc, err, others>>

\* one iteration of the loop of initRelations that panics: construction is aborted
InitRelationsPanic ==
    /\ pc = "relations"
    /\ i <= Len(tbl.Fields)
    /\ ~tryRelation(tbl, tbl.Fields[i]).ok
    /\ pc' = "aborted"
    /\ err' = tryRelation(tbl, tbl.Fields[i]).err
    /\ tbl' = tryRelation(tbl, tbl.Fields[i]).t
    /\ UNCHANGED <<decl, walk, i, others>>

\* the end of init2
Init2Finish ==
    /\ pc = "relations"
    /\ i > Len(tbl.Fields)
    /\ tbl' = [tbl EXCEPT !.skippedFields = <<>>]
    /\ pc' = "done"
    /\ UNCHANGED <<decl, walk, i, err, others>>

Init == InitTable /\ InitInlineIdle /\ InitLockIdle /\ InitUseIdle

Next ==
    \/ AddFieldsStep
    \/ AddFieldsEmbedded
    \/ InitFieldsFinish
    \/ InitInlines
    \/ InitRelationsStep
    \/ InitRelationsPanic
    \/ Init2Finish

Spec == Init /\ [][Next]_vars

----------------------------------------------------------------------------
(* initInlines on record types that refer to themselves and to each other,     *)
(* one call, loop iteration or return of inlineFields at a time                *)

\* record types whose struct-typed fields refer to any of them or to the owner
NodeTypes == {"N1", "N2", "N3"}

NodeTargets == NodeTypes \cup {OwnerType}

Struct(go, elem) == Attr(go, "", NoOptions, "struct", elem)

Skipped(go, elem) == Attr(go, "-", NoOptions, "struct", elem)

\* the declaration of a node type whose fields Left and Right have the types l, r
NodeDecl(typ, l, r) ==
    IF typ = "N3" THEN << Scalar("Val"), Struct("Left", l) >>
    ELSE << Scalar("Val"), Struct("Left", l), Skipped("Right", r) >>

NodeTable(typ, l, r) == pkFallback(addFieldsFrom(newTable(typ), NodeDecl(typ, l, r), <<>>, 1))

\* the owner: Book{ID; Meta x "-"; Peer y "-"}
OwnerTable(x, y) ==
    pkFallback(addFieldsFrom(newTable(OwnerType),
        << Scalar("ID"), Skipped("Meta", x), Skipped("Peer", y) >>, <<>>, 1))

\* the sum over the types in S of (number of fields + 1)
RECURSIVE Weight(_)
Weight(S) ==
    IF S = {} THEN 0
    ELSE LET typ == CHOOSE typ \in S : TRUE
         IN Len(tables[typ].allFields) + 1 + Weight(S \ {typ})

InitInlineRun ==
    /\ \E l \in [NodeTypes -> NodeTargets], r \in [NodeTypes -> NodeTargets] :
          tables = [typ \in NodeTypes |-> NodeTable(typ, l[typ], r[typ])]
    /\ \E x \in NodeTargets, y \in {OwnerType, "N1"} : tbl = OwnerTable(x, y)
    /\ decl = <<>> /\ walk = <<>> /\ err = ""
    /\ pc = "inlines"
    /\ i = 1
    /\ frames = <<>> /\ visited = {} /\ expanded = <<>> /\ clones = 0

TopFrame == frames[Len(frames)]

\* one iteration of the loop of initInlines: inlineFields(f, nil) is entered
InlineCall ==
    /\ pc = "inlines"
    /\ frames = <<>>
    /\ i <= Len(tbl.skippedFields)
    /\ LET f == Deref(tbl, tbl.skippedFields[i])
       IN IF f.Kind = "struct" /\ ~onPath({tbl.Type}, f.Elem)
          THEN /\ visited' = {tbl.Type, f.Elem}
               /\ frames' = <<[strct |-> f, typ |-> f.Elem, j |-> 1]>>
               /\ expanded' = <<f.Elem>>
          ELSE /\ visited' = {tbl.Type}
               /\ frames' = <<>>
               /\ expanded' = <<>>
    /\ i' = i + 1
    /\ UNCHANGED <<tables, tbl, decl, walk, pc, err, clones, lockVars, useVars>>

\* one iteration of the loop of inlineFields in the innermost call
InlineField ==
    /\ pc = "inlines"
    /\ frames # <<>>
    /\ TopFrame.j <= Len(Ref(TopFrame.typ).allFields)
    /\ LET joinTable == Ref(TopFrame.typ)
           f == inlineClone(TopFrame.strct, Deref(joinTable, joinTable.allFields[TopFrame.j]))
           rest == [frames EXCEPT ![Len(frames)].j = @ + 1]
       IN /\ tbl' = registerClone(tbl, f)
          /\ clones' = clones + 1
          /\ IF f.Kind = "struct" /\ ~onPath(visited, f.Elem)
             THEN /\ visited' = visited \cup {f.Elem}
                  /\ frames' = Append(rest, [strct |-> f, typ |-> f.Elem, j |-> 1])
                  /\ expanded' = Append(expanded, f.Elem)
             ELSE /\ frames' = rest
                  /\ UNCHANGED <<visited, expanded>>
    /\ UNCHANGED <<tables, decl, walk, pc, i, err, lockVars, useVars>>

\* the innermost call of inlineFields returns
InlineReturn ==
    /\ pc = "inlines"
    /\ frames # <<>>
    /\ TopFrame.j > Len(Ref(TopFrame.typ).allFields)
    /\ frames' = SubSeq(frames, 1, Len(frames) - 1)
    /\ UNCHANGED <<tables, tbl, decl, walk, pc, i, err, visited, expanded, clones, lockVars, useVars>>

\* initInlines returns
InlineDone ==
    /\ pc = "inlines"
    /\ frames = <<>>
    /\ i > Len(tbl.skippedFields)
    /\ pc' = "inlined"
    /\ UNCHANGED <<tables, tbl, decl, walk, i, err, inlineVars, lockVars, useVars>>

NextInline == InlineCall \/ InlineField \/ InlineReturn \/ InlineDone

InitInline == InitInlineRun /\ InitLockIdle /\ InitUseIdle

SpecInline == InitInline /\ [][NextInline]_vars

----------------------------------------------------------------------------
(* Column lookups on a table by other goroutines while inlineFields registers  *)
(* clones in its FieldMap.  fieldsMapMu is [writer, readers]; an access to the *)
(* map is a span with a beginning and an end.                                  *)

Readers == {"g1", "g2"}

LookupOps == {"fieldWithLock", "HasField", "Field"}

\* Book{ID; Meta Base "-"}, with or without a column that is already named meta__id
LockOwner(taken) ==
    pkFallback(addFieldsFrom(newTable(OwnerType),
        (IF taken THEN << Attr("Alias", "meta__id", NoOptions, "int", "") >> ELSE <<>>)
        \o << Scalar("ID"), Skipped("Meta", "Base") >>, <<>>, 1))

\* the clones inlineFields(strct, nil) makes, in order
ClonesOf(t, strct) ==
    LET joinTable == Ref(strct.Elem)
    IN [j \in 1..Len(joinTable.allFields) |->
           inlineClone(strct, Deref(joinTable, joinTable.allFields[j]))]

LookupNames == {"meta__id", "meta__name"}

Idle == [op |-> "", name |-> "", at |-> "idle", n |-> 0, raced |-> FALSE]

NoResult == [fatal |-> FALSE, ok |-> FALSE, field |-> Nil]

\* what a lookup returns when it does not overlap a write
Lookup(op, t, name) ==
    IF op = "HasField" THEN [fatal |-> FALSE, ok |-> HasField(t, name), field |-> Nil]
    ELSE IF op = "Field"
         THEN [fatal |-> FALSE, ok |-> HasField(t, name), field |-> Field(t, name)]
         ELSE [fatal |-> FALSE, ok |-> fieldWithLock(t, name) # Nil,
               field |-> fieldWithLock(t, name)]

\* what a map read that overlaps a map write can produce: the runtime's fatal
\* error, or the lookup on the map with or without the entry that was written
RacedLookup(op, t, name) ==
    { [fatal |-> TRUE, ok |-> FALSE, field |-> Nil],
      Lookup(op, t, name),
      Lookup(op, [t EXCEPT !.FieldMap = MapDelete(@, name)], name) }

Crashed == \E g \in Readers : res[g].fatal

InitLock ==
    /\ tables = [typ \in EnvTypes |-> EnvTable(typ)]
    /\ \E taken \in BOOLEAN : tbl = LockOwner(taken)
    /\ todo = ClonesOf(tbl, Deref(tbl, tbl.skippedFields[1]))
    /\ decl = <<>> /\ walk = <<>> /\ err = "" /\ i = 1
    /\ pc = "inlines"
    /\ mu = [writer |-> FALSE, readers |-> {}]
    /\ wpc = "idle"
    /\ rpc = [g \in Readers |-> Idle]
    /\ res = [g \in Readers |-> NoResult]

\* t.fieldsMapMu.Lock()
WLock ==
    /\ ~Crashed
    /\ wpc = "idle" /\ todo # <<>>
    /\ ~mu.writer /\ mu.readers = {}
    /\ mu' = [mu EXCEPT !.writer = TRUE]
    /\ wpc' = "locked"
    /\ UNCHANGED <<tables, tableVars, inlineVars, useVars, rpc, todo, res>>

\* the test and the assignment of t.FieldMap[f.Name] begin
WBegin ==
    /\ ~Crashed
    /\ wpc = "locked"
    /\ wpc' = "writing"
    /\ rpc' = [g \in Readers |->
                 IF rpc[g].at = "reading" THEN [rpc[g] EXCEPT !.raced = TRUE] ELSE rpc[g]]
    /\ UNCHANGED <<tables, tableVars, inlineVars, useVars, mu, todo, res>>

\* ... and end
WEnd ==
    /\ ~Crashed
    /\ wpc = "writing"
    /\ tbl' = registerClone(tbl, Head(todo))
    /\ wpc' = "written"
    /\ UNCHANGED <<tables, decl, walk, pc, i, err, inlineVars, useVars, mu, rpc, todo, res>>

\* t.fieldsMapMu.Unlock(), and on to the next field of joinTable.allFields
WUnlock ==
    /\ ~Crashed
    /\ wpc = "written"
    /\ mu' = [mu EXCEPT !.writer = FALSE]
    /\ todo' = Tail(todo)
    /\ wpc' = "idle"
    /\ UNCHANGED <<tables, tableVars, inlineVars, useVars, rpc, res>>

\* goroutine g calls one of the lookups
RCall(g) ==
    /\ ~Crashed
    /\ rpc[g].at = "idle" /\ rpc[g].n < MaxLookups
    /\ \E op \in LookupOps, name \in LookupNames :
          rpc' = [rpc EXCEPT ![g] = [op |-> op, name |-> name, at |-> "called",
                                     n |-> rpc[g].n + 1, raced |-> FALSE]]
    /\ UNCHANGED <<tables, tableVars, inlineVars, useVars, mu, wpc, todo, res>>

\* t.fieldsMapMu.RLock() in fieldWithLock
RLock(g) ==
    /\ ~Crashed
    /\ rpc[g].at = "called" /\ rpc[g].op = "fieldWithLock"
    /\ ~mu.writer
    /\ mu' = [mu EXCEPT !.readers = @ \cup {g}]
    /\ rpc' = [rpc EXCEPT ![g].at = "rlocked"]
    /\ UNCHANGED <<tables, tableVars, inlineVars, useVars, wpc, todo, res>>

\* the read of t.FieldMap[name] begins: under the read lock in fieldWithLock,
\* at once in HasField and Field
RBegin(g) ==
    /\ ~Crashed
    /\ \/ rpc[g].at = "rlocked"
       \/ rpc[g].at = "called" /\ rpc[g].op \in {"HasField", "Field"}
    /\ rpc' = [rpc EXCEPT ![g].at = "reading", ![g].raced = (wpc = "writing")]
    /\ UNCHANGED <<tables, tableVars, inlineVars, useVars, mu, wpc, todo, res>>

\* ... and ends
REnd(g) ==
    /\ ~Crashed
    /\ rpc[g].at = "reading"
    /\ IF rpc[g].raced
       THEN res' \in {[res EXCEPT ![g] = out] :
                         out \in RacedLookup(rpc[g].op, tbl, rpc[g].name)}
       ELSE res' = [res EXCEPT ![g] = Lookup(rpc[g].op, tbl, rpc[g].name)]
    /\ rpc' = [rpc EXCEPT ![g].at = IF rpc[g].op = "fieldWithLock" THEN "read" ELSE "idle"]
    /\ UNCHANGED <<tables, tableVars, inlineVars, useVars, mu, wpc, todo>>

\* t.fieldsMapMu.RUnlock() in fieldWithLock
RUnlock(g) ==
    /\ ~Crashed
    /\ rpc[g].at = "read"
    /\ mu' = [mu EXCEPT !.readers = @ \ {g}]
    /\ rpc' = [rpc EXCEPT ![g].at = "idle"]
    /\ UNCHANGED <<tables, tableVars, inlineVars, useVars, wpc, todo, res>>

NextLock ==
    \/ WLock \/ WBegin \/ WEnd \/ WUnlock
    \/ \E g \in Readers : RCall(g) \/ RLock(g) \/ RBegin(g) \/ REnd(g) \/ RUnlock(g)

InitLookups == InitLock /\ InitInlineIdle /\ InitUseIdle

SpecLock == InitLookups /\ [][NextLock]_vars

----------------------------------------------------------------------------
(* Properties of field discovery *)

Range(seq) == {seq[j] : j \in 1..Len(seq)}

Last(seq) == seq[Len(seq)]

\* the column name an attribute resolves to
ColumnName(f) ==
    IF f.Tag.Name \notin {"", "-"} THEN f.Tag.Name ELSE Underscore(f.GoName)

\* some discovered field carries the pk option
TaggedPK == \E k \in 1..Len(tbl.heap) : HasOption(tbl.heap[k].Tag, "pk")

FallbackNames == <<"id", "uuid", "pk_" \o tbl.ModelName>>

FallbackHits == {j \in 1..3 : FallbackNames[j] \in DOMAIN tbl.FieldMap}

FirstFallback ==
    tbl.FieldMap[FallbackNames[CHOOSE j \in FallbackHits : \A h \in FallbackHits : j <= h]]

\* the step that ends phase 1
FallbackStep == pc = "init1" /\ pc' = "init2"

\* the fallback promoted exactly the first conventional name
Promoted ==
    /\ tbl'.PKs = <<FirstFallback>>
    /\ tbl'.heap[FirstFallback.k].IsPK
    /\ tbl'.heap[FirstFallback.k].AutoIncrement
    /\ FirstFallback \notin Range(tbl'.DataFields)

\* C5 as stated: the fallback is decided by whether a field is tagged pk
C5_Original ==
    [][FallbackStep =>
        /\ (~TaggedPK /\ FallbackHits # {}) => Promoted
        /\ (~TaggedPK /\ FallbackHits = {}) => tbl'.PKs = <<>>
        /\ TaggedPK => tbl' = tbl]_vars

\* C5 (amended): the primary-key fallback is decided by PKs after the walk.  If
\* PKs is empty and a field is registered under id, uuid or pk_<model-name>, PKs
\* becomes exactly the first match in that order, marked primary key and
\* auto-increment and no longer in DataFields; if no such name is registered PKs
\* stays empty; if PKs is not empty the fallback changes nothing.
C5_Fallback ==
    [][FallbackStep =>
        /\ (tbl.PKs = <<>> /\ FallbackHits # {}) => Promoted
        /\ (tbl.PKs = <<>> /\ FallbackHits = {}) => tbl'.PKs = <<>>
        /\ tbl.PKs # <<>> => tbl' = tbl]_vars

\* phase 1 ended with a pk-tagged field that is not active and a promoted field
\* that was never tagged
C5_Witness ==
    /\ pc = "init2"
    /\ TaggedPK
    /\ Len(tbl.PKs) = 1
    /\ ~HasOption(Deref(tbl, tbl.PKs[1]).Tag, "pk")
    /\ Deref(tbl, tbl.PKs[1]).IsPK
    /\ Deref(tbl, tbl.PKs[1]).AutoIncrement

\* the attribute and base path a discovery step works on, NoAttr for a return
NoAttr == [f |-> Nil, base |-> <<>>]

StepAttr ==
    IF pc # "init1" THEN NoAttr
    ELSE IF walk # <<>>
    THEN IF Top.j <= Len(Top.fields)
         THEN [f |-> StructField(Top.fields[Top.j], Top.j - 1), base |-> Top.base]
         ELSE NoAttr
    ELSE IF Len(decl') = Len(decl) + 1
         THEN [f |-> StructField(Last(decl'), Len(decl)), base |-> <<>>]
         ELSE NoAttr

\* the step discovers an exported, non-embedded attribute whose column name is
\* registered already for a field of another access path
Rediscovery ==
    /\ StepAttr # NoAttr
    /\ ~StepAttr.f.Anonymous
    /\ StepAttr.f.PkgPath = ""
    /\ ColumnName(StepAttr.f) \in DOMAIN tbl.FieldMap
    /\ Deref(tbl, tbl.FieldMap[ColumnName(StepAttr.f)]).Index
          # StepAttr.base \o StepAttr.f.Index

\* C6 as stated: the second discovery is a no-op
C6_Original ==
    [][Rediscovery =>
        /\ tbl'.FieldMap[ColumnName(StepAttr.f)] = tbl.FieldMap[ColumnName(StepAttr.f)]
        /\ tbl'.heap[tbl.FieldMap[ColumnName(StepAttr.f)].k]
              = tbl.heap[tbl.FieldMap[ColumnName(StepAttr.f)].k]
        /\ tbl'.Fields = tbl.Fields
        /\ tbl'.PKs = tbl.PKs
        /\ tbl'.DataFields = tbl.DataFields]_vars

\* C6 (amended): a discovery by a different access path of a column name that is
\* registered already replaces the earlier Field: the earlier Field leaves Fields,
\* PKs and DataFields, the name is registered for a new Field whose Index is the
\* second path, and the new Field is appended to Fields unless it is skipped.
C6_Replaces ==
    [][Rediscovery =>
        LET name == ColumnName(StepAttr.f)
            old == tbl.FieldMap[name]
            new == tbl'.FieldMap[name]
        IN /\ new # old
           /\ Deref(tbl', new).Index = StepAttr.base \o StepAttr.f.Index
           /\ old \notin Range(tbl'.Fields) \cup Range(tbl'.PKs) \cup Range(tbl'.DataFields)
           /\ IF StepAttr.f.Tag.Name = "-"
              THEN tbl'.Fields = removeField(tbl.Fields, old)
              ELSE tbl'.Fields = Append(removeField(tbl.Fields, old), new)]_vars

\* a field that was an active column is registered no longer: a later discovery of
\* its column name took its place
C6_Witness ==
    \E k \in Range(tbl.allFields) :
        /\ k \notin Range(tbl.Fields) \cup Range(tbl.skippedFields)
        /\ Deref(tbl, k).Name \in DOMAIN tbl.FieldMap
        /\ tbl.FieldMap[Deref(tbl, k).Name] # k
        /\ Deref(tbl, tbl.FieldMap[Deref(tbl, k).Name]).Index # Deref(tbl, k).Index

----------------------------------------------------------------------------
(* Properties of relation resolution *)

Published(name) == name \in DOMAIN tbl.Relations

IDpk == Attr("ID", "", PK, "int", "")

BelongsToAuthor == Attr("Author", "", Opt("rel", "belongs-to"), "struct", "Author")

\* Book{ID pk; AuthorID; Author *Author rel:belongs-to} was constructed
BookScenario ==
    /\ pc = "done"
    /\ decl = <<IDpk, Scalar("AuthorID"), BelongsToAuthor>>

\* C1: constructing Book{ID pk; AuthorID; Author *Author rel:belongs-to} next to
\* Author{ID pk; Name} publishes the relation Author of kind belongs-to with
\* BaseFields = [Book.AuthorID] and JoinFields = [Author.ID].
C1_BelongsToScenario ==
    BookScenario =>
        /\ Published("Author")
        /\ tbl.Relations["Author"].Type = BelongsToRelation
        /\ tbl.Relations["Author"].BaseFields = <<tbl.FieldMap["author_id"]>>
        /\ tbl.Relations["Author"].JoinFields = <<tables["Author"].FieldMap["id"]>>

\* C2: every published relation has BaseFields and JoinFields of the same length,
\* and that length is greater than zero.
C2_ParallelNonEmpty ==
    \A name \in DOMAIN tbl.Relations :
        /\ Len(tbl.Relations[name].BaseFields) = Len(tbl.Relations[name].JoinFields)
        /\ Len(tbl.Relations[name].BaseFields) > 0

\* the field the loop of initRelations is about to process
AtField == pc = "relations" /\ i <= Len(tbl.Fields)

Cur == Deref(tbl, tbl.Fields[i])

RelKinds == {"has-one", "belongs-to", "has-many"}

CurRel == IF HasOption(Cur.Tag, "rel") THEN Cur.Tag.Options["rel"] ELSE ""

\* the field is a has-one, belongs-to or has-many relation without a join option
Conventional == AtField /\ CurRel \in RelKinds /\ ~HasOption(Cur.Tag, "join")

\* the table whose primary keys the convention walks, the table the foreign keys
\* are looked up on, and the prefix
KeyTable == IF CurRel = "has-one" THEN tables[Cur.Elem] ELSE tbl

FKTable == IF CurRel = "has-one" THEN tbl ELSE tables[Cur.Elem]

FKPrefix ==
    IF CurRel = "has-one" THEN Underscore(Cur.GoName) \o "_"
    ELSE Underscore(tbl.ModelName) \o "_"

KeyName(j) == Deref(KeyTable, KeyTable.PKs[j]).Name

\* some primary key has neither a prefixed nor a bare column
ConventionMissing ==
    \E j \in 1..Len(KeyTable.PKs) :
        /\ FKPrefix \o KeyName(j) \notin DOMAIN FKTable.FieldMap
        /\ KeyName(j) \notin DOMAIN FKTable.FieldMap

\* the foreign key the convention picks for primary key j
ConventionPick(j) ==
    IF FKPrefix \o KeyName(j) \in DOMAIN FKTable.FieldMap
    THEN FKTable.FieldMap[FKPrefix \o KeyName(j)]
    ELSE FKTable.FieldMap[KeyName(j)]

\* this step publishes the relation of the current field
Publishes == Cur.GoName \notin DOMAIN tbl.Relations /\ Cur.GoName \in DOMAIN tbl'.Relations

\* C3: for a has-one, belongs-to or has-many relation without an explicit join the
\* convention walks the primary keys in order (the target's for has-one, the
\* owner's otherwise), takes <prefix>_<pk> when it exists and the bare <pk> only
\* when it does not, and aborts construction when neither exists.
C3_Convention ==
    [][Conventional =>
        /\ ConventionMissing => pc' = "aborted"
        /\ Publishes =>
            LET rel == tbl'.Relations[Cur.GoName]
                keys == IF CurRel = "has-one" THEN rel.JoinFields ELSE rel.BaseFields
                fks == IF CurRel = "has-one" THEN rel.BaseFields ELSE rel.JoinFields
            IN /\ keys = KeyTable.PKs
               /\ Len(fks) = Len(keys)
               /\ \A j \in 1..Len(keys) : fks[j] = ConventionPick(j)]_vars

HasOneAuthor == Attr("Author", "", Opt("rel", "has-one"), "struct", "Author")

\* has-one by convention was resolved on a table that has both author_id and id:
\* the prefixed column was taken
C3_Witness ==
    /\ Published("Author")
    /\ HasOneAuthor \in Range(decl)
    /\ "id" \in DOMAIN tbl.FieldMap
    /\ "author_id" \in DOMAIN tbl.FieldMap
    /\ tbl.Relations["Author"].BaseFields = <<tbl.FieldMap["author_id"]>>

\* C4: a published many-to-many relation has BaseFields = the primary keys of the
\* left side and M2MBaseFields = as many junction columns, JoinFields = the primary
\* keys of the right side and M2MJoinFields = as many junction columns, none of
\* them empty, and M2MTable is the table registered under the m2m name.
C4_ManyToMany ==
    \A name \in DOMAIN tbl.Relations :
        LET rel == tbl.Relations[name]
            f == Deref(tbl, rel.Field)
        IN rel.Type = ManyToManyRelation =>
            /\ rel.M2MTable # ""
            /\ tables[rel.M2MTable].Name = f.Tag.Options["m2m"]
            /\ Len(rel.BaseFields) = Len(rel.M2MBaseFields)
            /\ Len(rel.JoinFields) = Len(rel.M2MJoinFields)
            /\ Len(rel.BaseFields) > 0
            /\ Len(rel.JoinFields) > 0
            /\ rel.BaseFields = tbl.PKs
            /\ rel.JoinFields = tables[rel.JoinTable].PKs
            /\ \A j \in 1..Len(rel.M2MBaseFields) :
                  rel.M2MBaseFields[j] \in Range(tables[rel.M2MTable].Fields)
            /\ \A j \in 1..Len(rel.M2MJoinFields) :
                  rel.M2MJoinFields[j] \in Range(tables[rel.M2MTable].Fields)
            /\ \A j \in 1..Len(rel.M2MBaseFields) :
                  Deref(tables[rel.M2MTable], rel.M2MBaseFields[j]).Name
                     = "book_" \o Deref(tbl, rel.BaseFields[j]).Name
            /\ \A j \in 1..Len(rel.M2MJoinFields) :
                  Deref(tables[rel.M2MTable], rel.M2MJoinFields[j]).Name
                     = "tag_" \o Deref(tables[rel.JoinTable], rel.JoinFields[j]).Name

\* a many-to-many relation between a single-key owner and the two-key Tag
C4_Witness ==
    /\ Published("Tags")
    /\ tbl.Relations["Tags"].Type = ManyToManyRelation
    /\ Len(tbl.Relations["Tags"].BaseFields) = 1
    /\ Len(tbl.Relations["Tags"].M2MJoinFields) = 2

Count(seq, x) == Cardinality({j \in 1..Len(seq) : seq[j] = x})

UnknownKind == HasOption(Cur.Tag, "rel") /\ CurRel \notin RelKinds

IsM2M == ~HasOption(Cur.Tag, "rel") /\ HasOption(Cur.Tag, "m2m")

NotSlice == (CurRel = "has-many" \/ IsM2M) /\ Cur.Kind # "slice"

JoinPairs == Cur.Tag.Options["join"]

IsTypePair(s) ==
    CurRel = "has-many" /\ HasOption(Cur.Tag, "polymorphic") /\ JoinPairs[s][1] = "type"

ExplicitUnresolved ==
    /\ CurRel \in RelKinds
    /\ HasOption(Cur.Tag, "join")
    /\ \A s \in 1..Len(JoinPairs) : Len(JoinPairs[s]) = 2
    /\ \E s \in 1..Len(JoinPairs) :
          /\ ~IsTypePair(s)
          /\ \/ JoinPairs[s][1] \notin DOMAIN tbl.FieldMap
             \/ JoinPairs[s][2] \notin DOMAIN tables[Cur.Elem].FieldMap

JunctionTypes == {typ \in EnvTypes : tables[typ].Name = Cur.Tag.Options["m2m"]}

GoNames(t) == {Deref(t, t.allFields[j]).GoName : j \in 1..Len(t.allFields)}

JunctionMissing == IsM2M /\ JunctionTypes = {}

JunctionSideMissing ==
    /\ IsM2M
    /\ ~HasOption(Cur.Tag, "join")
    /\ \E typ \in JunctionTypes :
          \/ tbl.TypeName \notin GoNames(tables[typ])
          \/ tables[Cur.Elem].TypeName \notin GoNames(tables[typ])

DuplicateName ==
    /\ HasOption(Cur.Tag, "rel") \/ HasOption(Cur.Tag, "m2m")
    /\ Cur.GoName \in DOMAIN tbl.Relations

Fatal ==
    \/ UnknownKind
    \/ NotSlice
    \/ ExplicitUnresolved
    \/ Conventional /\ ConventionMissing
    \/ JunctionMissing
    \/ JunctionSideMissing
    \/ DuplicateName

\* C9: an unknown relation kind, a has-many or m2m field that is not a slice, an
\* unresolved foreign-key column, a missing junction table or junction-side field
\* and a second relation under a registered name each abort construction and leave
\* the Relations map as it was before the field was processed.
C9_FatalAborts ==
    [][(AtField /\ Fatal) =>
        /\ pc' = "aborted"
        /\ tbl'.Relations = tbl.Relations]_vars

\* construction was aborted by a second relation named like a published one
C9_Witness ==
    /\ pc = "aborted"
    /\ err = "already has relation"
    /\ Published("Author")
    /\ tbl.Relations["Author"].Field # tbl.Fields[i]
    /\ Deref(tbl, tbl.Fields[i]).GoName = "Author"

----------------------------------------------------------------------------
(* Properties of inlining *)

\* what is left of the current call of inlineFields(f, nil): the fields of the
\* types not visited yet and of the calls in progress
RECURSIVE FramesLeft(_)
FramesLeft(c) ==
    IF c = 0 THEN 0
    ELSE Len(Ref(frames[c].typ).allFields) + 2 - frames[c].j + FramesLeft(c - 1)

CallWork == Weight(NodeTypes \ visited) + FramesLeft(Len(frames))

\* what is left of initInlines
Work ==
    IF pc = "inlined" THEN 0
    ELSE 1 + (Len(tbl.skippedFields) + 1 - i) * (Weight(NodeTypes) + 1)
         + (IF frames = <<>> THEN 0 ELSE CallWork)

\* C8: inlining terminates on self-referential and mutually-referential record
\* types: a call of inlineFields(f, nil) expands a type at most once and never the
\* owning table's type, it creates at most one clone per field of the types it
\* expands, and every step of initInlines decreases the work that is left.
C8_InlineTerminates ==
    /\ [](/\ \A a, b \in 1..Len(expanded) : expanded[a] = expanded[b] => a = b
          /\ tbl.Type \notin Range(expanded)
          /\ \A c \in 1..Len(frames) : frames[c].typ # tbl.Type
          /\ clones <= Len(tbl.skippedFields) * Weight(NodeTypes)
          /\ Work >= 0)
    /\ [][Work' < Work]_vars

\* initInlines returned on an owner with a skipped field of its own type and a
\* skipped field of a type that refers to itself: the first registered nothing,
\* the second registered clones
C8_Witness ==
    /\ pc = "inlined"
    /\ \E j \in 1..Len(tbl.skippedFields) :
          /\ Deref(tbl, tbl.skippedFields[j]).Elem = tbl.Type
          /\ Deref(tbl, tbl.skippedFields[j]).Name \o "__val" \notin DOMAIN tbl.FieldMap
    /\ \E j \in 1..Len(tbl.skippedFields) :
          LET typ == Deref(tbl, tbl.skippedFields[j]).Elem
          IN /\ typ \in NodeTypes
             /\ \E k \in Range(tables[typ].allFields) : Deref(tables[typ], k).Elem = typ
             /\ Deref(tbl, tbl.skippedFields[j]).Name \o "__val" \in DOMAIN tbl.FieldMap

----------------------------------------------------------------------------
(* Properties of the locking of the field-name map *)

Reading(g) == rpc[g].at = "reading"

Writing == wpc = "writing"

\* C10: a read of the table's FieldMap by HasField, Field or fieldWithLock and the
\* write of the same map by inlineFields never overlap unless both sides hold
\* fieldsMapMu, which the lock never allows: no lookup ever raced with the write.
C10_LockExcludes ==
    \A g \in Readers :
        /\ Reading(g) /\ Writing => mu.writer /\ g \in mu.readers
        /\ ~rpc[g].raced

\* the lookup that does take the read lock never overlaps the write
C10_FieldWithLock ==
    \A g \in Readers : rpc[g].op = "fieldWithLock" => ~(Reading(g) /\ Writing) /\ ~rpc[g].raced

----------------------------------------------------------------------------
(* Properties of soft delete *)

SoftField == Deref(tbl, tbl.SoftDeleteField)

\* the setter each declared type is to get
ExpectedUpdater(field) ==
    IF field.Ptr
    THEN IF field.Elem = "time.Time" THEN "ptrTime"
         ELSE IF field.Elem = "int64" THEN "ptrInt64"
         ELSE "fallback"
    ELSE IF field.Elem = "time.Time" THEN "time"
    ELSE IF field.Elem = "sql.NullTime" THEN "nullTime"
    ELSE IF field.Elem = "sql.NullInt64" THEN "nullInt"
    ELSE IF field.Elem = "int64" THEN "int64"
    ELSE "fallback"

\* C11: the soft-delete setter fixed at construction is the one of the declared
\* type of the attribute (time.Time, sql.NullTime, sql.NullInt64, int64, the
\* allocating setters for *time.Time and *int64, the fallback for every other
\* type), and applied to the attribute of a zero-valued record it succeeds and
\* leaves the attribute non-zero.
C11_SoftDeleteSetter ==
    /\ tbl.SoftDeleteField # Nil => tbl.UpdateSoftDeleteField = ExpectedUpdater(SoftField)
    /\ pc = "deleted" => sderr = "" /\ fv # Zero(SoftField)

----------------------------------------------------------------------------
(* Properties of skipped attributes *)

\* a step that discovered an attribute tagged "-"
SkipStep == Len(tbl'.skippedFields) = Len(tbl.skippedFields) + 1

\* the skipped field is in none of the active collections
StaysOut(t, r) ==
    /\ r \notin Range(t.Fields)
    /\ r \notin Range(t.DataFields)
    /\ r \notin Range(t.PKs)

\* C12: an attribute tagged "-" is registered in FieldMap under its converted
\* attribute name when it is discovered, and from then to the end of
\* construction, the primary-key fallback included, it is in none of Fields,
\* DataFields and PKs.
C12_SkippedStaysOut ==
    [][/\ SkipStep =>
            LET r == tbl'.skippedFields[Len(tbl'.skippedFields)]
            IN /\ Underscore(Deref(tbl', r).GoName) \in DOMAIN tbl'.FieldMap
               /\ tbl'.FieldMap[Underscore(Deref(tbl', r).GoName)] = r
       /\ \A j \in 1..Len(tbl'.skippedFields) : StaysOut(tbl', tbl'.skippedFields[j])]_vars

\* what does hold: a skipped field is in no active collection while the
\* attributes are walked
C12_OutDuringWalk ==
    pc = "init1" => \A j \in 1..Len(tbl.skippedFields) : StaysOut(tbl, tbl.skippedFields[j])

----------------------------------------------------------------------------
(* Properties of the hook accessors *)

\* C13: each of the nine Has<Hook>Hook accessors returns true exactly when the
\* pointer to the record type implements that hook's interface, whatever other
\* hooks the type implements.
C13_HookAccessors ==
    asked.hook # "" => (asked.result <=> asked.hook \in impl)

\* what does hold: every accessor but HasBeforeInsertHook answers for its own hook
C13_OtherAccessors ==
    asked.hook \notin {"", "BeforeInsertHook"} => (asked.result <=> asked.hook \in impl)

====
